---- MODULE Spec2Model ----
(***************************************************************************)
(* Model of chaospy's Leja and Gauss-Radau quadrature generators           *)
(*   src/chaospy/quad/collection/leja.py         quad_leja, create_weights *)
(*   src/chaospy/quad/collection/gauss_radau.py  quad_gauss_radau,         *)
(*                                               radau_jakobi              *)
(*                                                                         *)
(* Real numbers are exact rationals <<numerator, denominator>>.  The Leja  *)
(* working list is kept on an integer grid of `scale` points per unit,     *)
(* refined before every iteration so that every open sub-interval holds a  *)
(* grid point for the bounded minimizer to return.                         *)
(***************************************************************************)
EXTENDS Integers, Sequences, FiniteSets

VARIABLES func, order, dist, fixed_point, minimizer, dependent,
          pc, dim, abscissas, scale, iter, out, coefficients,
          result, error, calls

vars == <<func, order, dist, fixed_point, minimizer, dependent,
          pc, dim, abscissas, scale, iter, out, coefficients,
          result, error, calls>>

\* ------------------------------------------------------------------ bounds

\* Largest quadrature order a call is made with.
MaxOrder == 2

\* Largest number of dimensions of a distribution.
MaxDim == 2

\* Largest sum of the per-dimension orders of one quad_leja call.
MaxTotalOrder == 3

\* Largest node coordinate, and largest number of nodes, handed directly to
\* create_weights.
MaxNode == 3
MaxNodes == 3

\* ------------------------------------------------------- exact arithmetic

Abs(x) == IF x < 0 THEN -x ELSE x

RECURSIVE GCD(_, _)
GCD(a, b) == IF b = 0 THEN a ELSE GCD(b, a % b)

\* The rational n/d in lowest terms with a positive denominator (d # 0).
Rat(n, d) ==
    LET g == GCD(Abs(n), Abs(d))
        s == IF d < 0 THEN -1 ELSE 1
    IN  <<s * (n \div g), s * (d \div g)>>

RatInt(n) == <<n, 1>>

RatNeg(p) == <<-p[1], p[2]>>

RatAdd(p, q) ==
    LET l == (p[2] \div GCD(p[2], q[2])) * q[2]
    IN  Rat(p[1] * (l \div p[2]) + q[1] * (l \div q[2]), l)

RatSub(p, q) == RatAdd(p, RatNeg(q))

RatMul(p, q) ==
    LET g1 == GCD(Abs(p[1]), q[2])
        g2 == GCD(Abs(q[1]), p[2])
    IN  Rat((p[1] \div g1) * (q[1] \div g2), (p[2] \div g2) * (q[2] \div g1))

\* p / q for q # 0.
RatDiv(p, q) == RatMul(p, Rat(q[2], q[1]))

RatLess(p, q) == p[1] * q[2] < q[1] * p[2]

\* The array s and the matrix M with every entry computed (once).
Array(s) == s \o <<>>
Matrix(M) == Array([i \in 1..Len(M) |-> Array(M[i])])

RECURSIVE RatSum(_)
RatSum(s) == IF Len(s) = 0 THEN RatInt(0) ELSE RatAdd(Head(s), RatSum(Tail(s)))

RECURSIVE RatProd(_)
RatProd(s) == IF Len(s) = 0 THEN RatInt(1) ELSE RatMul(Head(s), RatProd(Tail(s)))

\* numpy.sqrt on the perfect squares the model's densities and beta
\* coefficients take.
Sqrt(n) == CHOOSE r \in 0..n : r * r = n

\* ---------------------------------------------------------- linear algebra

\* Sequence s without its k-th entry.
Drop(s, k) == Array([i \in 1..(Len(s) - 1) |-> IF i < k THEN s[i] ELSE s[i + 1]])

\* Matrix M (a sequence of rows) without row r and column c.
Minor(M, r, c) ==
    LET rows == Drop(M, r)
    IN  Array([i \in 1..Len(rows) |-> Drop(rows[i], c)])

Sign(k) == IF k % 2 = 0 THEN 1 ELSE -1

\* Determinant of a square rational matrix, by expansion along the first row.
RECURSIVE Det(_)
Det(M) ==
    IF Len(M) = 0 THEN RatInt(1)
    ELSE IF Len(M) = 1 THEN M[1][1]
    ELSE RatSum(Array([j \in 1..Len(M) |->
             RatMul(RatMul(RatInt(Sign(j + 1)), M[1][j]), Det(Minor(M, 1, j)))]))

\* numpy.linalg.inv: raises LinAlgError (ok = FALSE) on a singular matrix,
\* else returns the inverse, entry (i, j) being the cofactor of entry (j, i)
\* over the determinant.
inv(M) ==
    LET d == Det(M)
    IN  IF d[1] = 0 THEN [ok |-> FALSE, val |-> <<>>]
        ELSE [ok |-> TRUE,
              val |-> Matrix([i \in 1..Len(M) |-> [j \in 1..Len(M) |->
                 RatDiv(RatMul(RatInt(Sign(i + j)), Det(Minor(M, j, i))), d)]])]

\* Matrix times column vector, and row vector times matrix.
MatVec(M, v) ==
    Array([i \in 1..Len(M) |-> RatSum(Array([j \in 1..Len(v) |-> RatMul(M[i][j], v[j])]))])
VecMat(v, M) ==
    Array([i \in 1..Len(M) |-> RatSum(Array([j \in 1..Len(v) |-> RatMul(v[j], M[j][i])]))])

\* The first unit vector of length n.
E0(n) == Array([i \in 1..n |-> IF i = 1 THEN RatInt(1) ELSE RatInt(0)])

\* ----------------------------------------------------------- distributions

\* The 1-D marginals calls are made with.  Each answers the collaborator
\* queries the code makes: range() -> (lower, upper), mom(1), pdf (constant
\* on each unit cell of the support, in units that make its square root an
\* integer), the three-term recurrence coefficients alpha_0 = alpha0,
\* alpha_k = alpha, beta_0 = 1, beta_k = beta (k >= 1), and whether the
\* analytical Stieltjes procedure is implemented for it.
Marginals ==
    { [lower |-> 0,  mom |-> 2, upper |-> 4, pdf |-> <<1, 1, 1, 1>>,
       alpha0 |-> 2, alpha |-> 2, beta |-> 1, analytic |-> TRUE],
      [lower |-> 0,  mom |-> 1, upper |-> 4, pdf |-> <<4, 4, 1, 1>>,
       alpha0 |-> 1, alpha |-> 2, beta |-> 1, analytic |-> FALSE],
      [lower |-> -4, mom |-> 0, upper |-> 4, pdf |-> <<1, 1, 4, 4, 4, 4, 1, 1>>,
       alpha0 |-> 0, alpha |-> 0, beta |-> 4, analytic |-> TRUE] }

\* All sequences of length n over S.
SeqsOf(S, n) == [1..n -> S]

\* dist.pdf at the grid point p of a grid with s points per unit.
pdf(m, p, s) ==
    LET cell == ((p - m.lower * s) \div s) + 1
    IN  IF cell < 1 \/ p > m.upper * s THEN 0
        ELSE IF cell > Len(m.pdf) THEN m.pdf[Len(m.pdf)]
        ELSE m.pdf[cell]

\* Recurrence coefficients alpha_k and beta_k of marginal m.
Alpha(m, k) == IF k = 0 THEN m.alpha0 ELSE m.alpha
Beta(m, k) == IF k = 0 THEN 1 ELSE m.beta

\* ------------------------------------------------------ Leja weight solver

\* Value at x of the monic orthogonal polynomial of degree k of marginal m:
\* p_0 = 1, p_{k+1} = (x - alpha_k) p_k - beta_k p_{k-1}.
RECURSIVE PolyVal(_, _, _)
PolyVal(m, k, x) ==
    IF k = 0 THEN RatInt(1)
    ELSE IF k = 1 THEN RatSub(x, RatInt(Alpha(m, 0)))
    ELSE RatSub(RatMul(RatSub(x, RatInt(Alpha(m, k - 1))), PolyVal(m, k - 1, x)),
                RatMul(RatInt(Beta(m, k - 1)), PolyVal(m, k - 2, x)))

\* analytical_stieljes(n, dist) and, where that is not implemented,
\* discretized_stieltjes on a 100*len(nodes)-sample rule: the polynomials of
\* degree 0..n, here by the degree.
analytical_stieljes(n, m) == [k \in 1..(n + 1) |-> k - 1]
discretized_stieltjes(n, m) == [k \in 1..(n + 1) |-> k - 1]

\* poly(nodes): entry (i, j) is polynomial i at node j.
PolyAt(m, poly, nodes) ==
    Matrix([i \in 1..Len(poly) |-> [j \in 1..Len(nodes) |-> PolyVal(m, poly[i], nodes[j])]])

\* The basis matrix create_weights inverts.
BasisMatrix(nodes, m) ==
    LET poly == IF m.analytic THEN analytical_stieljes(Len(nodes) - 1, m)
                ELSE discretized_stieltjes(Len(nodes) - 1, m)
    IN  PolyAt(m, poly, nodes)

\* create_weights returning weights[0, :], the first row of the inverse.
CreateWeightsFirstRow(nodes, m) ==
    LET weights == inv(BasisMatrix(nodes, m))
    IN  IF ~weights.ok THEN [ok |-> FALSE, val |-> <<>>]
        ELSE [ok |-> TRUE, val |-> Array([j \in 1..Len(nodes) |-> weights.val[1][j]])]

\* weights[:, 0] of the inverse; the LinAlgError of inv propagates.
create_weights(nodes, m) ==
    LET weights == inv(BasisMatrix(nodes, m))
    IN  IF ~weights.ok THEN [ok |-> FALSE, val |-> <<>>]
        ELSE [ok |-> TRUE, val |-> Array([j \in 1..Len(nodes) |-> weights.val[j][1]])]

\* ------------------------------------------------------- Leja node builder

\* The order quad_leja runs dimension d with: order itself when it is an
\* int (held as the one entry of order.val), order[d] otherwise.
OrderOf(d) == IF order.isint THEN order.val[1] ELSE order.val[d]

\* The working list on the grid refined to twice the points per unit.
Refined(a) == Array([i \in 1..Len(a) |-> 2 * a[i]])

\* abscissas[2:-1]: the first raw moment dropped with the boundary anchors.
InteriorWithoutMoment(a) == Array([i \in 1..(Len(a) - 3) |-> a[i + 2]])

\* abscissas[1:-1]
Interior(a) == Array([i \in 1..(Len(a) - 2) |-> a[i + 1]])

RECURSIVE IntSum(_)
IntSum(s) == IF Len(s) = 0 THEN 0 ELSE Head(s) + IntSum(Tail(s))

RECURSIVE IntProd(_)
IntProd(s) == IF Len(s) = 0 THEN 1 ELSE Head(s) * IntProd(Tail(s))

\* objective(abscissas_) for working list a on a grid of s points per unit,
\* in grid units: -sqrt(pdf(x)) * prod(|abscissas[1:-1] - x|).
objective(m, a, s, p) ==
    -(Sqrt(pdf(m, p, s)) * IntProd(Array([i \in 1..(Len(a) - 2) |-> Abs(a[i + 1] - p)])))

\* The objective at every grid point of the support of working list a, as
\* an array indexed from the lower bound a[1].
ObjectiveTable(m, a, s) ==
    Array([k \in 1..(a[Len(a)] - a[1] + 1) |-> objective(m, a, s, a[1] + k - 1)])

\* The grid points of the open interval (lo, hi) at which f, the objective
\* tabulated from grid point base, has a local minimum.
LocalMinima(f, base, lo, hi) ==
    { p \in (lo + 1)..(hi - 1) :
        /\ (p - 1 > lo => f[p - base] >= f[p - base + 1])
        /\ (p + 1 < hi => f[p - base + 2] >= f[p - base + 1]) }

SetMin(S) == CHOOSE x \in S : \A y \in S : x <= y
SetMax(S) == CHOOSE x \in S : \A y \in S : x >= y

\* fminbound(objective, lo, hi, full_output=1)[:2]: a local minimizer of
\* the objective strictly inside (lo, hi) and the objective there.  Which
\* local minimum the routine converges to is fixed for a run by `how`.
fminbound(f, base, lo, hi, how) ==
    LET lm == LocalMinima(f, base, lo, hi)
        best == { p \in lm : \A q \in lm : f[p - base + 1] <= f[q - base + 1] }
        x == CASE how = "global" -> SetMin(best)
               [] how = "lowest" -> SetMin(lm)
               [] OTHER -> SetMax(lm)
    IN  <<x, f[x - base + 1]>>

\* An argmin that returns the index of the last smallest entry.
ArgminLast(vals) ==
    CHOOSE i \in 1..Len(vals) :
        /\ \A j \in 1..Len(vals) : vals[i] <= vals[j]
        /\ \A j \in (i + 1)..Len(vals) : vals[j] > vals[i]

\* numpy.argmin: the index (from 1) of the first smallest entry.
argmin(vals) ==
    CHOOSE i \in 1..Len(vals) :
        /\ \A j \in 1..Len(vals) : vals[i] <= vals[j]
        /\ \A j \in 1..(i - 1) : vals[j] > vals[i]

\* abscissas[k - 1] = x: entry k overwritten instead of x being inserted.
InsertOverwrite(a, k, x) ==
    Array([i \in 1..Len(a) |-> IF i = k THEN x ELSE a[i]])

\* list.insert(k - 2, x): x inserted one place too early.
InsertOnePlaceEarly(a, k, x) ==
    Array([i \in 1..(Len(a) + 1) |->
        IF i < k - 1 THEN a[i] ELSE IF i = k - 1 THEN x ELSE a[i - 1]])

\* list.insert(k - 1, x): x becomes entry k (from 1).
Insert(a, k, x) ==
    Array([i \in 1..(Len(a) + 1) |-> IF i < k THEN a[i] ELSE IF i = k THEN x ELSE a[i - 1]])

\* The candidates of one iteration (lines 80-84): for every adjacent pair
\* of a, the minimizer of the objective between them and its value.
Candidates(m, a, s, how) ==
    LET f == ObjectiveTable(m, a, s)
    IN  Array([idx \in 1..(Len(a) - 1) |-> fminbound(f, a[1], a[idx], a[idx + 1], how)])

\* One iteration of the loop body (lines 75-86) on the refined grid.
LejaStep(m, a, s, how) ==
    LET cand == Candidates(m, a, s, how)
        opts == Array([idx \in 1..Len(cand) |-> cand[idx][1]])
        vals == Array([idx \in 1..Len(cand) |-> cand[idx][2]])
        index == argmin(vals)
    IN  Insert(a, index + 1, opts[index])

\* The nodes of working list a as reals.
AsReals(a, s) == Array([i \in 1..Len(a) |-> Rat(a[i], s)])

\* ----------------------------------------------------------- tensor rules

\* combine(arrays): the Cartesian product of the per-dimension arrays, one
\* row per combination, the first dimension varying slowest.
RECURSIVE combine(_)
combine(arrays) ==
    IF Len(arrays) = 0 THEN << <<>> >>
    ELSE LET rest == combine(Tail(arrays))
             first == Head(arrays)
         IN  Array([i \in 1..(Len(first) * Len(rest)) |->
                 <<first[((i - 1) \div Len(rest)) + 1]>> \o rest[((i - 1) % Len(rest)) + 1]])

\* The transpose of an N-by-D array of rows, as D rows of length N.
Transpose(rows, D) == Matrix([d \in 1..D |-> [i \in 1..Len(rows) |-> rows[i][d]]])

\* ------------------------------------------------------------- quad_leja

\* Entry of quad_leja for one dimension (lines 71-72).
LejaEnter(d) ==
    /\ dim' = d
    /\ abscissas' = <<dist[d].lower, dist[d].mom, dist[d].upper>>
    /\ scale' = 1
    /\ iter' = 0
    /\ pc' = "loop"

\* The multivariate path taken by 1-D distributions too.
IsMultivariateFromOne(ds) == Len(ds) >= 1

\* Line 54: whether quad_leja takes the multivariate path.
IsMultivariate(ds) == Len(ds) > 1

\* Lines 54-57: the dependency check of a multivariate distribution.
LejaCall ==
    /\ func = "quad_leja" /\ pc = "call"
    /\ IF IsMultivariate(dist)
       THEN /\ calls' = calls \cup {"get_dependencies"}
            /\ IF dependent
               THEN /\ pc' = "raised"
                    /\ error' = [type |-> "DependencyError", value |-> RatInt(0)]
                    /\ UNCHANGED <<dim, abscissas, scale, iter>>
               ELSE /\ LejaEnter(1)
                    /\ UNCHANGED error
       ELSE /\ LejaEnter(1)
            /\ UNCHANGED <<calls, error>>
    /\ UNCHANGED <<func, order, dist, fixed_point, minimizer, dependent,
                   out, coefficients, result>>

\* Lines 73-86: one iteration of the insertion loop.
LejaInsert ==
    /\ func = "quad_leja" /\ pc = "loop"
    /\ iter < OrderOf(dim)
    /\ abscissas' = LejaStep(dist[dim], Refined(abscissas), 2 * scale, minimizer)
    /\ scale' = 2 * scale
    /\ iter' = iter + 1
    /\ calls' = calls \cup {"fminbound"}
    /\ UNCHANGED <<func, order, dist, fixed_point, minimizer, dependent,
                   pc, dim, out, coefficients, result, error>>

\* Lines 88-92: the 1-D rule of the current dimension, returned to the
\* caller (lines 59-61) or, for a 1-D distribution, as the result.
LejaReturn ==
    /\ func = "quad_leja" /\ pc = "loop"
    /\ iter >= OrderOf(dim)
    /\ LET nodes == Interior(AsReals(abscissas, scale))
           weights == create_weights(nodes, dist[dim])
           rule == [abscissas |-> <<nodes>>, weights |-> weights.val]
       IN  /\ calls' = calls \cup {"create_weights"}
           /\ IF ~weights.ok
              THEN /\ pc' = "raised"
                   /\ error' = [type |-> "LinAlgError", value |-> RatInt(0)]
                   /\ UNCHANGED <<dim, abscissas, scale, iter, out, result>>
              ELSE /\ UNCHANGED error
                   /\ out' = Append(out, rule)
                   /\ IF ~IsMultivariate(dist)
                      THEN /\ result' = rule
                           /\ pc' = "done"
                           /\ UNCHANGED <<dim, abscissas, scale, iter>>
                      ELSE IF dim < Len(dist)
                      THEN /\ LejaEnter(dim + 1)
                           /\ UNCHANGED result
                      ELSE /\ pc' = "combine"
                           /\ UNCHANGED <<dim, abscissas, scale, iter, result>>
    /\ UNCHANGED <<func, order, dist, fixed_point, minimizer, dependent, coefficients>>

\* The tensor product with the weights combined in the opposite order of
\* dimensions to the nodes.
LejaTensorMisaligned(rules) ==
    LET nodes == Array([d \in 1..Len(rules) |-> rules[d].abscissas[1]])
        weights == Array([d \in 1..Len(rules) |-> rules[Len(rules) + 1 - d].weights])
        rows == combine(weights)
    IN  [abscissas |-> Transpose(combine(nodes), Len(rules)),
         weights |-> Array([i \in 1..Len(rows) |-> RatProd(rows[i])])]

\* Lines 63-69: the tensor product of the per-dimension rules.
LejaTensor(rules) ==
    LET nodes == Array([d \in 1..Len(rules) |-> rules[d].abscissas[1]])
        weights == Array([d \in 1..Len(rules) |-> rules[d].weights])
        rows == combine(weights)
    IN  [abscissas |-> Transpose(combine(nodes), Len(rules)),
         weights |-> Array([i \in 1..Len(rows) |-> RatProd(rows[i])])]

LejaCombine ==
    /\ func = "quad_leja" /\ pc = "combine"
    /\ result' = LejaTensor(out)
    /\ calls' = calls \cup {"combine"}
    /\ pc' = "done"
    /\ UNCHANGED <<func, order, dist, fixed_point, minimizer, dependent,
                   dim, abscissas, scale, iter, out, coefficients, error>>

\* The orders a call on a D-dimensional distribution is made with: an int,
\* or for D > 1 one int per dimension.
Orders(D) ==
    { [isint |-> TRUE, val |-> <<k>>] : k \in { j \in 0..MaxOrder : D * j <= MaxTotalOrder } }
    \cup (IF D > 1
          THEN { [isint |-> FALSE, val |-> s] :
                   s \in { t \in SeqsOf(0..MaxOrder, D) : IntSum(t) <= MaxTotalOrder } }
          ELSE {})

Dists == UNION { SeqsOf(Marginals, D) : D \in 1..MaxDim }

NoResult == [abscissas |-> <<>>, weights |-> <<>>]
NoError == [type |-> "none", value |-> RatInt(0)]

Idle ==
    /\ pc = "call" /\ dim = 0 /\ abscissas = <<>> /\ scale = 1 /\ iter = 0
    /\ out = <<>> /\ coefficients = <<>>
    /\ result = NoResult /\ error = NoError /\ calls = {}

InitLeja ==
    /\ func = "quad_leja"
    /\ dist \in Dists
    /\ order \in Orders(Len(dist))
    /\ fixed_point = [given |-> FALSE, val |-> 0, points |-> <<>>]
    /\ minimizer \in {"global", "lowest", "highest"}
    /\ dependent \in BOOLEAN
    /\ Idle

\* ----------------------------------------------------------- Gauss-Radau

\* The omitted fixed point resolved to dist.range()[1], the upper bound.
ResolveFixedPointUpper(fp, ds) ==
    IF ~fp.given THEN Array([d \in 1..Len(ds) |-> RatInt(ds[d].upper)])
    ELSE Array([d \in 1..Len(ds) |-> RatMul(RatInt(1), RatInt(fp.val))])

\* Lines 114-117: the fixed point of every dimension, dist.range()[0] when
\* the argument is omitted, numpy.ones(len(dist)) * fixed_point otherwise.
ResolveFixedPoint(fp, ds) ==
    IF ~fp.given THEN Array([d \in 1..Len(ds) |-> RatInt(ds[d].lower)])
    ELSE Array([d \in 1..Len(ds) |-> RatMul(RatInt(1), RatInt(fp.val))])

\* construct_recurrence_coefficients(n, dist, ...): for every dimension the
\* coefficients alpha_0..alpha_n and beta_0..beta_n.
construct_recurrence_coefficients(n, ds) ==
    Array([d \in 1..Len(ds) |->
        [alpha |-> Array([k \in 1..(n + 1) |-> RatInt(Alpha(ds[d], k - 1))]),
         beta |-> Array([k \in 1..(n + 1) |-> Beta(ds[d], k - 1)])]])

\* The dense n-by-n matrix scipy's (1, 1) band storage ab stands for:
\* ab[0][j] is entry (j-1, j), ab[1][j] is entry (j, j), ab[2][j] is entry
\* (j+1, j) (rows and columns from 0; here from 1).
FromBands(ab, n) ==
    Matrix([i \in 1..n |-> [j \in 1..n |->
        IF j = i + 1 THEN ab[1][j]
        ELSE IF j = i THEN ab[2][j]
        ELSE IF j = i - 1 THEN ab[3][j]
        ELSE RatInt(0)]])

\* Matrix A with column c replaced by vector b.
ReplaceColumn(A, c, b) ==
    Matrix([i \in 1..Len(A) |-> [j \in 1..Len(A) |-> IF j = c THEN b[i] ELSE A[i][j]]])

\* Floating-point division: a nonzero number over zero is an infinity, zero
\* over zero is not a number; both are held with denominator 0.
FloatDiv(a, b) ==
    IF b[1] # 0 THEN RatDiv(a, b)
    ELSE IF a[1] > 0 THEN <<1, 0>>
    ELSE IF a[1] < 0 THEN <<-1, 0>>
    ELSE <<0, 0>>

\* Floating-point addition: an infinity or not-a-number absorbs a finite
\* number.
FloatAdd(a, b) ==
    IF b[2] = 0 THEN b ELSE IF a[2] = 0 THEN a ELSE RatAdd(a, b)

\* A finite floating-point number.
IsFinite(a) == a[2] # 0

\* scipy.linalg.solve_banded((1, 1), ab, b).  A system of one column is
\* answered by dividing b by the diagonal entry, with no test of that entry.
\* A larger system goes to the tridiagonal solver, which raises LinAlgError
\* (ok = FALSE) when the matrix is singular and else returns the solution x
\* of A x = b.
solve_banded(ab, b) ==
    LET A == FromBands(ab, Len(b))
        d == Det(A)
    IN  IF Len(b) = 1 THEN [ok |-> TRUE, val |-> <<FloatDiv(b[1], ab[2][1])>>]
        ELSE IF d[1] = 0 THEN [ok |-> FALSE, val |-> <<>>]
        ELSE [ok |-> TRUE,
              val |-> Array([j \in 1..Len(b) |-> RatDiv(Det(ReplaceColumn(A, j, b)), d)])]

\* The right-hand side of radau_jakobi (lines 159-160).
RightHandSide(coeffs) ==
    LET n == Len(coeffs.alpha)
    IN  Array([i \in 1..(n - 1) |-> IF i = n - 1 THEN RatInt(coeffs.beta[n]) ELSE RatInt(0)])

\* bands_j with coeffs[1] in place of numpy.sqrt(coeffs[1]).
BandsJWithoutSqrt(coeffs, point) ==
    LET n == Len(coeffs.alpha)
        bands_a == Matrix(<< [k \in 1..n |-> RatInt(coeffs.beta[k])],
                             [k \in 1..n |-> RatSub(coeffs.alpha[k], point)] >>)
    IN  Matrix(<< [k \in 1..(n - 1) |-> bands_a[1][k]],
                  [k \in 1..(n - 1) |-> bands_a[2][k]],
                  [k \in 1..(n - 1) |-> bands_a[1][k + 1]] >>)

\* bands_j of radau_jakobi (lines 161-162).
BandsJ(coeffs, point) ==
    LET n == Len(coeffs.alpha)
        bands_a == Matrix(<< [k \in 1..n |-> RatInt(Sqrt(coeffs.beta[k]))],
                             [k \in 1..n |-> RatSub(coeffs.alpha[k], point)] >>)
    IN  Matrix(<< [k \in 1..(n - 1) |-> bands_a[1][k]],
                  [k \in 1..(n - 1) |-> bands_a[2][k]],
                  [k \in 1..(n - 1) |-> bands_a[1][k + 1]] >>)

\* radau_jakobi(coeffs, fixed_point): the coefficients with the last alpha
\* replaced by fixed_point + delta[-1], or the LinAlgError that carries the
\* fixed point (ok = FALSE, val the fixed point).
radau_jakobi(coeffs, point) ==
    LET delta == solve_banded(BandsJ(coeffs, point), RightHandSide(coeffs))
        n == Len(coeffs.alpha)
    IN  IF ~delta.ok THEN [ok |-> FALSE, val |-> point, coeffs |-> coeffs]
        ELSE [ok |-> TRUE, val |-> point,
              coeffs |-> [coeffs EXCEPT !.alpha[n] = FloatAdd(point, delta.val[n - 1])]]

\* The Jacobi matrix of coefficients: diagonal alpha_0..alpha_m and
\* off-diagonal sqrt(beta_1)..sqrt(beta_m).
Jacobi(coeffs) ==
    Matrix([i \in 1..Len(coeffs.alpha) |-> [j \in 1..Len(coeffs.alpha) |->
        IF j = i THEN coeffs.alpha[i]
        ELSE IF j = i + 1 THEN RatInt(Sqrt(coeffs.beta[j]))
        ELSE IF j = i - 1 THEN RatInt(Sqrt(coeffs.beta[i]))
        ELSE RatInt(0)]])

\* M - x * I
Shifted(M, x) ==
    Matrix([i \in 1..Len(M) |-> [j \in 1..Len(M) |->
        IF i = j THEN RatSub(M[i][j], x) ELSE M[i][j]]])

\* coefficients_to_quadrature(coefficients): for every dimension the
\* eigenvalues of the Jacobi matrix as abscissas and the weights that go
\* with them; entry i of dimension d is held as a term naming i and d.
coefficients_to_quadrature(cs) ==
    [abscissas |-> Matrix([d \in 1..Len(cs) |->
                      [i \in 1..Len(cs[d].alpha) |-> [eigenvalue |-> i, of |-> d]]]),
     weights |-> Matrix([d \in 1..Len(cs) |->
                    [i \in 1..Len(cs[d].alpha) |-> [weight |-> i, of |-> d]]])]

\* ------------------------------------------------------ quad_gauss_radau

\* numpy.prod over the weights of one combination, of terms.
TermProd(row) == [product |-> row]

\* Lines 114-123: the fixed points, the order-0 rule, the coefficients.
RadauCall ==
    /\ func = "quad_gauss_radau" /\ pc = "call"
    /\ LET points == ResolveFixedPoint(fixed_point, dist)
       IN  /\ fixed_point' = [fixed_point EXCEPT !.points = points]
           /\ IF order.val[1] = 0
              THEN /\ result' = [abscissas |-> Matrix([d \in 1..Len(points) |-> <<points[d]>>]),
                                 weights |-> <<RatInt(1)>>]
                   /\ pc' = "done"
                   /\ UNCHANGED <<dim, coefficients, calls>>
              ELSE /\ coefficients' =
                          construct_recurrence_coefficients(2 * order.val[1] - 1, dist)
                   /\ calls' = calls \cup {"construct_recurrence_coefficients"}
                   /\ dim' = 1
                   /\ pc' = "jakobi"
                   /\ UNCHANGED result
    /\ UNCHANGED <<func, order, dist, minimizer, dependent,
                   abscissas, scale, iter, out, error>>

\* Lines 124-125: radau_jakobi on the coefficients of one dimension.
RadauJakobi ==
    /\ func = "quad_gauss_radau" /\ pc = "jakobi"
    /\ LET r == radau_jakobi(coefficients[dim], fixed_point.points[dim])
       IN  /\ calls' = calls \cup {"radau_jakobi"}
           /\ IF ~r.ok
              THEN /\ pc' = "raised"
                   /\ error' = [type |-> "LinAlgError: Illegal Radau fixed point",
                                value |-> r.val]
                   /\ UNCHANGED <<dim, coefficients>>
              ELSE /\ coefficients' = [coefficients EXCEPT ![dim] = r.coeffs]
                   /\ UNCHANGED error
                   /\ IF dim < Len(dist)
                      THEN dim' = dim + 1 /\ UNCHANGED pc
                      ELSE pc' = "quadrature" /\ UNCHANGED dim
    /\ UNCHANGED <<func, order, dist, fixed_point, minimizer, dependent,
                   abscissas, scale, iter, out, result>>

\* Lines 129-130: the tensor product of the per-dimension rules q.
RadauTensor(q, D) ==
    LET rows == combine(q.weights)
    IN  [abscissas |-> Transpose(combine(q.abscissas), D),
         weights |-> Array([i \in 1..Len(rows) |-> TermProd(rows[i])])]

\* Every coefficient handed to the eigen-conversion is a finite number.
FiniteCoefficients(cs) ==
    \A d \in 1..Len(cs) : \A k \in 1..Len(cs[d].alpha) : IsFinite(cs[d].alpha[k])

\* Lines 127-132: the eigen-conversion and the tensor product.  What the
\* eigen-conversion makes of a coefficient that is not finite is not fixed:
\* it returns a rule or fails with an error of its own.
RadauQuadrature ==
    /\ func = "quad_gauss_radau" /\ pc = "quadrature"
    /\ \/ /\ LET q == coefficients_to_quadrature(coefficients)
             IN  /\ out' = Array([d \in 1..Len(dist) |->
                              [abscissas |-> <<q.abscissas[d]>>, weights |-> q.weights[d]]])
                 /\ result' = RadauTensor(q, Len(dist))
          /\ calls' = calls \cup {"coefficients_to_quadrature", "combine"}
          /\ pc' = "done"
          /\ UNCHANGED error
       \/ /\ ~FiniteCoefficients(coefficients)
          /\ calls' = calls \cup {"coefficients_to_quadrature"}
          /\ pc' = "raised"
          /\ error' = [type |-> "coefficients_to_quadrature", value |-> RatInt(0)]
          /\ UNCHANGED <<out, result>>
    /\ UNCHANGED <<func, order, dist, fixed_point, minimizer, dependent,
                   dim, abscissas, scale, iter, coefficients>>

\* The fixed_point arguments: omitted, or one of these scalars.
FixedPoints ==
    { [given |-> FALSE, val |-> 0, points |-> <<>>] }
    \cup { [given |-> TRUE, val |-> v, points |-> <<>>] : v \in {0, 1, 2} }

InitRadau ==
    /\ func = "quad_gauss_radau"
    /\ dist \in Dists
    /\ order \in { [isint |-> TRUE, val |-> <<k>>] : k \in 0..MaxOrder }
    /\ fixed_point \in FixedPoints
    /\ minimizer = "global"
    /\ dependent = FALSE
    /\ Idle

\* --------------------------------------------------- create_weights alone

\* create_weights(nodes, dist) on the nodes held in abscissas.
WeightsCall ==
    /\ func = "create_weights" /\ pc = "call"
    /\ LET nodes == AsReals(abscissas, scale)
           weights == create_weights(nodes, dist[1])
       IN  IF ~weights.ok
           THEN /\ pc' = "raised"
                /\ error' = [type |-> "LinAlgError", value |-> RatInt(0)]
                /\ UNCHANGED <<out, result>>
           ELSE /\ pc' = "done"
                /\ result' = [abscissas |-> <<nodes>>, weights |-> weights.val]
                /\ out' = <<result'>>
                /\ UNCHANGED error
    /\ calls' = calls \cup {"create_weights"}
    /\ UNCHANGED <<func, order, dist, fixed_point, minimizer, dependent,
                   dim, abscissas, scale, iter, coefficients>>

InitWeights ==
    /\ func = "create_weights"
    /\ dist \in SeqsOf(Marginals, 1)
    /\ order = [isint |-> TRUE, val |-> <<0>>]
    /\ fixed_point = [given |-> FALSE, val |-> 0, points |-> <<>>]
    /\ minimizer = "global"
    /\ dependent = FALSE
    /\ pc = "call" /\ dim = 0 /\ scale = 1 /\ iter = 0
    /\ abscissas \in UNION { SeqsOf(0..MaxNode, n) : n \in 1..MaxNodes }
    /\ out = <<>> /\ coefficients = <<>>
    /\ result = NoResult /\ error = NoError /\ calls = {}

\* ---------------------------------------------------------- specification

Init == InitLeja \/ InitRadau \/ InitWeights

Next ==
    \/ LejaCall \/ LejaInsert \/ LejaReturn \/ LejaCombine
    \/ RadauCall \/ RadauJakobi \/ RadauQuadrature
    \/ WeightsCall

Spec == Init /\ [][Next]_vars

\* ------------------------------------------------------------ properties

Leja == func = "quad_leja"
Radau == func = "quad_gauss_radau"

\* The set of entries of array s.
Range(s) == { s[i] : i \in 1..Len(s) }

\* The working list of marginal m after k insertions, with its grid: what
\* lines 71-86 compute when called with order k.
RECURSIVE LejaList(_, _, _)
LejaList(m, k, how) ==
    IF k = 0 THEN [list |-> <<m.lower, m.mom, m.upper>>, scale |-> 1]
    ELSE LET prev == LejaList(m, k - 1, how)
         IN  [list |-> LejaStep(m, Refined(prev.list), 2 * prev.scale, how),
              scale |-> 2 * prev.scale]

\* The nodes quad_leja(k, m) returns.
LejaNodes(m, k, how) ==
    LET run == LejaList(m, k, how) IN Interior(AsReals(run.list, run.scale))

\* An insertion of the Leja loop is taking place.
Inserting == Leja /\ pc = "loop" /\ iter' = iter + 1

\* C1: Leja node sets nest.  The working list after k insertions is that of
\* the order-k run whatever order the call was made with, and every
\* insertion keeps all the nodes of the order-k run and adds exactly one
\* node that was not among them.
C1_LejaNesting ==
    /\ [](Leja /\ pc = "loop" =>
            /\ abscissas = LejaList(dist[dim], iter, minimizer).list
            /\ scale = LejaList(dist[dim], iter, minimizer).scale)
    /\ [][Inserting =>
            LET before == Range(Interior(AsReals(abscissas, scale)))
                after == Range(Interior(AsReals(abscissas', scale')))
            IN  /\ before \subseteq after
                /\ before # after
                /\ Cardinality(after \ before) = 1
                /\ Cardinality(after) = Cardinality(before) + 1]_vars

C1_Witness == Leja /\ pc = "loop" /\ iter >= 2 /\ Len(abscissas) = iter + 3

\* C2 as claimed: a 1-D call with order k returns exactly k nodes.
C2_Original ==
    (Leja /\ pc = "done" /\ Len(dist) = 1) =>
        Len(result.abscissas[1]) = order.val[1]

\* C2 amended: a 1-D call with order k returns exactly k + 1 nodes and as
\* many weights: the working list holds 3 + (insertions so far) entries, and
\* dropping the two boundary anchors leaves the first raw moment and the k
\* inserted points; order 0 returns the first raw moment alone.
C2_LejaNodeCount ==
    /\ (Leja /\ pc = "loop") => Len(abscissas) = 3 + iter
    /\ (Leja /\ pc = "done" /\ Len(dist) = 1) =>
          /\ Len(result.abscissas) = 1
          /\ Len(result.abscissas[1]) = order.val[1] + 1
          /\ Len(result.weights) = order.val[1] + 1
          /\ RatInt(dist[1].mom) \in Range(result.abscissas[1])
          /\ order.val[1] = 0 => result.abscissas[1] = <<RatInt(dist[1].mom)>>

C2_Witness ==
    Leja /\ pc = "done" /\ Len(dist) = 1 /\ order.val[1] = 2
         /\ Len(result.abscissas[1]) = 3

\* The coefficients quad_gauss_radau requests for dimension d.
Requested(d) == construct_recurrence_coefficients(2 * order.val[1] - 1, dist)[d]

\* The fixed point quad_gauss_radau is to use in dimension d.
FixedPointOf(d) ==
    IF fixed_point.given THEN RatInt(fixed_point.val) ELSE RatInt(dist[d].lower)

\* The leading m-by-m block of the Jacobi matrix of the requested
\* coefficients of dimension d, less the fixed point times the identity.
LeadingBlock(d) ==
    LET J == Shifted(Jacobi(Requested(d)), FixedPointOf(d))
    IN  Matrix([i \in 1..(Len(J) - 1) |-> [j \in 1..(Len(J) - 1) |-> J[i][j]]])

\* The banded system of dimension d is singular.
Singular(d) == Det(LeadingBlock(d))[1] = 0

\* C3: with order >= 1, a fixed point whose banded system is singular in
\* some dimension makes the call fail with the illegal-fixed-point error
\* carrying the fixed point of the first such dimension; nothing is
\* returned, the coefficients are not changed, and neither the eigen-
\* conversion nor the tensor product is reached.  A call that gets past
\* radau_jakobi had no singular dimension.
C3_IllegalFixedPoint ==
    (Radau /\ order.val[1] >= 1 /\ pc # "call") =>
        /\ pc = "raised" =>
              /\ error.type = "LinAlgError: Illegal Radau fixed point"
              /\ error.value = FixedPointOf(dim)
              /\ Singular(dim)
              /\ \A d \in 1..(dim - 1) : ~Singular(d)
              /\ coefficients[dim] = Requested(dim)
              /\ result = NoResult
              /\ out = <<>>
              /\ calls \cap {"coefficients_to_quadrature", "combine"} = {}
        /\ pc = "jakobi" => \A d \in 1..(dim - 1) : ~Singular(d)
        /\ pc \in {"quadrature", "done"} =>
              /\ \A d \in 1..Len(dist) : ~Singular(d)
              /\ error = NoError

\* A call of order 1 whose fixed point makes the system of dimension 1
\* singular has reached the eigen-conversion.
C3_Witness ==
    /\ Radau /\ order.val[1] = 1 /\ Singular(1)
    /\ "coefficients_to_quadrature" \in calls

\* C4: order 0 returns one node, whose d-th coordinate is the fixed point of
\* dimension d (the lower bound of the support when the argument is
\* omitted, the scalar otherwise), with the single weight 1; no recurrence
\* coefficients are requested, radau_jakobi is not called and no error is
\* raised.
C4_RadauOrderZero ==
    (Radau /\ order.val[1] = 0 /\ pc # "call") =>
        /\ pc = "done"
        /\ Len(result.abscissas) = Len(dist)
        /\ \A d \in 1..Len(dist) : result.abscissas[d] = <<FixedPointOf(d)>>
        /\ result.weights = <<RatInt(1)>>
        /\ calls = {}
        /\ coefficients = <<>>
        /\ error = NoError

\* Order 0 with a fixed point that is illegal at order 1 in dimension 1.
C4_Witness ==
    /\ Radau /\ order.val[1] = 0 /\ pc = "done"
    /\ Len(dist) = 2 /\ fixed_point.given
    /\ RatInt(dist[1].alpha0) = FixedPointOf(1)

\* C5: quad_leja on a multivariate distribution with a dependency raises
\* DependencyError before any node is built or weight solved, whatever the
\* order argument, and returns nothing; on a 1-D distribution the
\* dependency check is not consulted and no DependencyError is raised.
C5_LejaDependency ==
    /\ (Leja /\ Len(dist) > 1 /\ dependent /\ pc # "call") =>
          /\ pc = "raised"
          /\ error.type = "DependencyError"
          /\ result = NoResult
          /\ out = <<>>
          /\ abscissas = <<>>
          /\ iter = 0
          /\ calls = {"get_dependencies"}
    /\ (Leja /\ Len(dist) = 1) =>
          /\ "get_dependencies" \notin calls
          /\ error.type # "DependencyError"
    /\ (Leja /\ Len(dist) > 1 /\ ~dependent) => error.type # "DependencyError"

C5_Witness ==
    Leja /\ pc = "raised" /\ error.type = "DependencyError" /\ ~order.isint

\* The per-dimension node counts of the 1-D rules in out.
Counts == [d \in 1..Len(out) |-> Len(out[d].weights)]

\* Every choice of one node index per dimension.
MultiIndices ==
    { t \in [1..Len(out) -> 1..(2 * MaxOrder + 1)] : \A d \in 1..Len(out) : t[d] <= Counts[d] }

\* The product of the per-dimension weights multi-index t picks.
WeightAt(t) ==
    LET row == Array([d \in 1..Len(out) |-> out[d].weights[t[d]]])
    IN  IF Leja THEN RatProd(row) ELSE TermProd(row)

\* The columns of the result that hold the nodes multi-index t picks.
ColumnsOf(t) ==
    { i \in 1..Len(result.weights) :
        \A d \in 1..Len(out) : result.abscissas[d][i] = out[d].abscissas[1][t[d]] }

\* C6: a returned rule (Gauss-Radau of order >= 1, Leja) is the tensor
\* product of the per-dimension 1-D rules: it has as many nodes as the
\* product of the per-dimension counts, every combination of one node per
\* dimension is exactly one column, and the weight of that column is the
\* product of the weights of its nodes; for quad_leja dimension d's rule is
\* the 1-D rule of dist[d] with order (an int) or order[d].
C6_TensorProduct ==
    ((Leja \/ (Radau /\ order.val[1] >= 1)) /\ pc = "done") =>
        /\ Len(out) = Len(dist)
        /\ Len(result.abscissas) = Len(dist)
        /\ Len(result.weights) = IntProd(Counts)
        /\ \A d \in 1..Len(dist) : Len(result.abscissas[d]) = IntProd(Counts)
        /\ \A t \in MultiIndices :
              /\ Cardinality(ColumnsOf(t)) = 1
              /\ \A i \in ColumnsOf(t) : result.weights[i] = WeightAt(t)
        /\ Leja => \A d \in 1..Len(dist) :
              /\ out[d].abscissas[1] =
                   LejaNodes(dist[d], IF order.isint THEN order.val[1] ELSE order.val[d],
                             minimizer)
              /\ out[d].weights = create_weights(out[d].abscissas[1], dist[d]).val
        /\ Radau => \A d \in 1..Len(dist) : Counts[d] = 2 * order.val[1]

\* A two-dimensional Leja rule from different per-dimension orders.
C6_Witness ==
    /\ Leja /\ pc = "done" /\ Len(dist) = 2 /\ ~order.isint
    /\ order.val[1] = 2 /\ order.val[2] = 1
    /\ Len(result.weights) = 6

\* radau_jakobi has returned coefficients for dimension d from a delta that
\* solves the banded system (a finite delta).
Succeeded(d) ==
    /\ Radau /\ order.val[1] >= 1
    /\ pc \in {"jakobi", "quadrature", "done"}
    /\ d < dim \/ pc # "jakobi"
    /\ IsFinite(coefficients[d].alpha[2 * order.val[1]])

Solved == func = "create_weights" /\ pc = "done"

\* C8 as claimed: the weights are the first row of the inverse of the basis
\* matrix P, the row vector w with w P = (1, 0, ..., 0).
C8_Original ==
    Solved =>
        VecMat(result.weights, BasisMatrix(result.abscissas[1], dist[1]))
            = E0(Len(result.weights))

\* C8 amended: the weights are the first column of the inverse of the basis
\* matrix P (entry (i, j) of P being polynomial i at node j), the column
\* vector w with P w = (1, 0, ..., 0); so in every 1-D Leja rule as well.
C8_FirstColumn ==
    /\ Solved =>
          /\ Len(result.weights) = Len(abscissas)
          /\ MatVec(BasisMatrix(result.abscissas[1], dist[1]), result.weights)
               = E0(Len(result.weights))
    /\ Leja => \A d \in 1..Len(out) :
          MatVec(BasisMatrix(out[d].abscissas[1], dist[d]), out[d].weights)
               = E0(Len(out[d].weights))

C8_Witness == Solved /\ Len(result.weights) = 3

\* The first sub-interval (from 1) of working list a whose candidate has
\* the smallest objective value among cand.
FirstBest(cand) ==
    CHOOSE k \in 1..Len(cand) :
        /\ \A j \in 1..Len(cand) : cand[k][2] <= cand[j][2]
        /\ \A j \in 1..(k - 1) : cand[j][2] > cand[k][2]

\* C9: an iteration computes one candidate for every adjacent pair of the
\* working list and inserts exactly one point: the candidate of the first
\* sub-interval whose objective value is the smallest, between that
\* sub-interval's endpoints.
C9_GlobalSmallest ==
    [][Inserting =>
        LET a == Refined(abscissas)
            cand == Candidates(dist[dim], a, 2 * scale, minimizer)
            k == FirstBest(cand)
        IN  /\ Len(cand) = Len(abscissas) - 1
            /\ \A j \in 1..Len(cand) : a[j] < cand[j][1] /\ cand[j][1] < a[j + 1]
            /\ Len(abscissas') = Len(abscissas) + 1
            /\ abscissas'[k + 1] = cand[k][1]
            /\ \A i \in 1..k : abscissas'[i] = a[i]
            /\ \A i \in (k + 1)..Len(a) : abscissas'[i + 1] = a[i]]_vars

\* The first insertion took place between candidates of equal objective.
C9_Witness ==
    /\ Leja /\ pc = "loop" /\ iter = 1
    /\ LET a == Refined(<<dist[dim].lower, dist[dim].mom, dist[dim].upper>>)
           cand == Candidates(dist[dim], a, 2, minimizer)
       IN  /\ cand[1][2] = cand[2][2]
           /\ abscissas = Insert(a, 2, cand[1][1])

\* Rational array s is strictly ascending.
Ascending(s) == \A i \in 1..(Len(s) - 1) : RatLess(s[i], s[i + 1])

\* C10: the working list is strictly ascending (so pairwise distinct),
\* starts with the lower and ends with the upper bound of the support and
\* holds 3 + (insertions so far) entries; the nodes of every 1-D rule are
\* strictly ascending and inside the support.
C10_SortedWorkingList ==
    /\ (Leja /\ pc = "loop") =>
          /\ \A i \in 1..(Len(abscissas) - 1) : abscissas[i] < abscissas[i + 1]
          /\ abscissas[1] = scale * dist[dim].lower
          /\ abscissas[Len(abscissas)] = scale * dist[dim].upper
          /\ Len(abscissas) = 3 + iter
    /\ Leja => \A d \in 1..Len(out) :
          /\ Ascending(out[d].abscissas[1])
          /\ \A x \in Range(out[d].abscissas[1]) :
                /\ ~RatLess(x, RatInt(dist[d].lower))
                /\ ~RatLess(RatInt(dist[d].upper), x)

C10_Witness == Leja /\ pc = "done" /\ Len(dist) = 1 /\ iter = 2 /\ Len(out) = 1

====
